---- MODULE Spec2Model ----
(***************************************************************************)
(* Model of the login and refresh handlers of the tui-chat server          *)
(* (server/src/routes/handlers/auth.rs) over the two tables they use:      *)
(* login (accounts, with the current refresh token) and session.           *)
(*                                                                         *)
(* A request runs in a slot.  Every action is one statement of a handler   *)
(* that touches the store, together with the local computation around it,  *)
(* so requests of different slots interleave between store statements.     *)
(* A handler that has returned leaves its request and its response in the  *)
(* slot (pc = "done") for exactly one state: the next step of the system   *)
(* frees the slot.  Spec lets requests overlap; SpecSeq starts a request   *)
(* only when no other request is running; SpecFail is SpecSeq with store   *)
(* statements that can fail.                                               *)
(***************************************************************************)
EXTENDS Integers, Sequences, FiniteSets, Bags, TLC

(***************************************************************************)
(* Bounds of the model.                                                    *)
(***************************************************************************)
MaxRequests == 3        \* requests started in one behaviour
MaxTicks == 1           \* advances of the clock in one behaviour

Slots == {1, 2}         \* requests that can be running at the same time

(***************************************************************************)
(* Program constants (auth.rs:12-14).                                      *)
(***************************************************************************)
SESSION_REMEMBER_EXPIRE_HOUR == 24 * 7
SESSION_NO_REMEMBER_EXPIRE_MINUTE == 30
REFRESHED_SESSION_EXPIRE_HOUR == 24 * 7

(***************************************************************************)
(* The rows of the login table.  Only refresh_token is ever written by     *)
(* the handlers, so id, username, salt and pw are fixed.  The two accounts *)
(* are chosen so that pw \o salt is the same string for both: only the     *)
(* username tells them apart.                                              *)
(***************************************************************************)
Ids == {1, 2}

\* utils::hash_from_string and utils::hash_from_u8: a one-way digest, opaque
\* here; equal inputs give equal digests, different inputs different ones.
hash_from_string(s) == [digest |-> s]
hash_from_u8(bytes) == [digest |-> bytes]

login_rows ==
    [i \in Ids |->
        IF i = 1
        THEN [id |-> 1, username |-> "alice", salt |-> "s1",
              pw |-> hash_from_string("secret1" \o "s1")]
        ELSE [id |-> 2, username |-> "bob", salt |-> "1s1",
              pw |-> hash_from_string("secret" \o "1s1")]]

\* What clients send.
Usernames == {"alice", "bob", "eve"}
Passwords == {"secret1", "secret"}

\* OsRng.next_u64().to_le_bytes(): eight random bytes; here two values of
\* one fixed length.
Keys == {"A", "B"}

\* The source of a token: the decimal id followed by the random bytes.
token_source(i, key) == ToString(i) \o key
make_token(i, key) == hash_from_u8(token_source(i, key))

NULL == [digest |-> "NULL"]
Forged == [digest |-> "forged"]
Tokens == {make_token(i, k) : i \in Ids, k \in Keys}
PresentedTokens == Tokens \cup {Forged}

\* Steps of the clock, in seconds: by the shorter of the durations a session
\* is given and by a second more, so that a session is met before its expire,
\* at its expire and after it.
TickSteps == {60 * 60 * SESSION_NO_REMEMBER_EXPIRE_MINUTE,
              60 * 60 * SESSION_NO_REMEMBER_EXPIRE_MINUTE + 1}

NoReq == [kind |-> "none"]
NoResp == [status |-> "none"]
NotAuthorized == [status |-> "NotAuthorized"]

\* .unwrap() on the Err of a store statement: the handler panics, the task of
\* the request ends and the client gets no reply of the handler.
Panicked == [status |-> "panicked"]

\* The statements of the store that a handler executes.
Statements == {"select_login", "select_session", "delete", "insert", "update"}

VARIABLES
    refresh_token,  \* login.refresh_token, by account id
    session,        \* the session table: a bag of rows (a row can occur more
                    \* than once, and a SELECT without ORDER BY gives the
                    \* rows in no particular order)
    clock,          \* SystemTime::now(), seconds since the epoch
    ticks,          \* how often the clock advanced
    started,        \* how many requests have started
    pc,             \* per slot: where the handler is
    req,            \* per slot: json_data
    id,             \* per slot: the local id
    result,         \* per slot: the rows the sweep still has to examine
    examined,       \* per slot: the rows the sweep has examined, each with
                    \* the current_time it was compared with
    resp,           \* per slot: what the handler returned
    error,          \* per slot: the store statement that failed in the
                    \* handler ("none" if none did)
    issued,         \* by account id: the refresh token of the latest
                    \* successful response for the account
    retired         \* by account id: the refresh token the latest successful
                    \* request for the account presented (NULL for a login)

vars == <<refresh_token, session, clock, ticks, started, pc, req, id, result,
          examined, resp, error, issued, retired>>

Init ==
    /\ refresh_token = [i \in Ids |-> NULL]
    /\ session = EmptyBag
    /\ clock = 0
    /\ ticks = 0
    /\ started = 0
    /\ pc = [r \in Slots |-> "idle"]
    /\ req = [r \in Slots |-> NoReq]
    /\ id = [r \in Slots |-> 0]
    /\ result = [r \in Slots |-> EmptyBag]
    /\ examined = [r \in Slots |-> {}]
    /\ resp = [r \in Slots |-> NoResp]
    /\ error = [r \in Slots |-> "none"]
    /\ issued = [i \in Ids |-> NULL]
    /\ retired = [i \in Ids |-> NULL]

(***************************************************************************)
(* Slots.                                                                  *)
(***************************************************************************)
Running(r) == pc[r] \notin {"idle", "done"}
Quiet(r) == \A q \in Slots \ {r} : ~Running(q)

\* A request that arrives takes the first slot that is free.
FirstFree(r) == ~Running(r) /\ \A q \in Slots : q < r => Running(q)

\* f with slot r set to v, and the slots of returned handlers freed.
Set(f, r, v, blank) ==
    [q \in Slots |-> IF q = r THEN v ELSE IF pc[q] = "done" THEN blank ELSE f[q]]

\* Slot r after a step of its handler in which the store statement
\* succeeded; the slots of returned handlers freed.
Slot(r, p, j, i, rows, ex, rp) ==
    /\ pc' = Set(pc, r, p, "idle")
    /\ req' = Set(req, r, j, NoReq)
    /\ id' = Set(id, r, i, 0)
    /\ result' = Set(result, r, rows, EmptyBag)
    /\ examined' = Set(examined, r, ex, {})
    /\ resp' = Set(resp, r, rp, NoResp)
    /\ error' = Set(error, r, "none", "none")

\* Slot r after the step in which store statement st returned an error: the
\* unwrap panics, so the handler ends there, with the request j and the
\* locals i and ex it had; the slots of returned handlers freed.
Panic(r, st, j, i, ex) ==
    /\ pc' = Set(pc, r, "done", "idle")
    /\ req' = Set(req, r, j, NoReq)
    /\ id' = Set(id, r, i, 0)
    /\ result' = Set(result, r, EmptyBag, EmptyBag)
    /\ examined' = Set(examined, r, ex, {})
    /\ resp' = Set(resp, r, Panicked, NoResp)
    /\ error' = Set(error, r, st, "none")

\* No handler steps; the slots of returned handlers are freed.
Freed(f, blank) == [q \in Slots |-> IF pc[q] = "done" THEN blank ELSE f[q]]

(***************************************************************************)
(* Store statements.                                                       *)
(***************************************************************************)
\* The rows of a table that satisfy a WHERE clause; Test is the set of rows
\* that satisfy it.
Where(rows, Test) ==
    [row \in {x \in DOMAIN rows : x \in Test} |-> rows[row]]

\* SELECT id, salt, pw FROM login WHERE username = :username
select_login_by_username(username) ==
    {i \in Ids : login_rows[i].username = username}

\* Mutant: a token that matches no row selects every row.
select_login_by_refresh_token_lax(token) ==
    IF \E i \in Ids : refresh_token[i] = token
    THEN {i \in Ids : refresh_token[i] = token}
    ELSE Ids

\* SELECT id FROM login WHERE refresh_token = :refresh_token
select_login_by_refresh_token(token) ==
    {i \in Ids : refresh_token[i] = token}

\* result[0]: the first row of a result set, rows in id order.
first_row(found) == CHOOSE i \in found : \A j \in found : i <= j

\* SELECT session, expire FROM session WHERE id = :id
select_session_by_id(i) ==
    Where(session, {row \in DOMAIN session : row.id = i})

\* DELETE FROM session WHERE session = :session
delete_session(token) ==
    Where(session, {row \in DOMAIN session : row.session # token})

\* INSERT INTO session (id, session, expire) VALUES (:id, :session, :expire)
insert_session(i, token, expire) ==
    session (+) SetToBag({[id |-> i, session |-> token, expire |-> expire]})

\* Mutant: the UPDATE is lost.
update_refresh_token_lost(i, token) == refresh_token

\* Mutant: the UPDATE has no WHERE clause.
update_refresh_token_all(i, token) == [j \in Ids |-> token]

\* Mutant: only a first refresh token is stored, a later one is dropped.
update_refresh_token_first(i, token) ==
    IF refresh_token[i] = NULL
    THEN [refresh_token EXCEPT ![i] = token]
    ELSE refresh_token

\* UPDATE login SET refresh_token = :refresh_token WHERE id = :id
update_refresh_token(i, token) ==
    [refresh_token EXCEPT ![i] = token]

(***************************************************************************)
(* Local computations of the handlers.                                     *)
(***************************************************************************)
\* Mutant: the password is not compared.
pw_matches_any(i, pw) == TRUE

\* auth.rs:36-37: the password check against the row found.
pw_matches(i, pw) ==
    hash_from_string(pw \o login_rows[i].salt) = login_rows[i].pw

\* Mutant: an unknown username gets an error of its own.
verify_telling(username, pw) ==
    LET found == select_login_by_username(username) IN
    IF found = {}
    THEN [status |-> "NotFound"]
    ELSE IF ~pw_matches(first_row(found), pw)
    THEN NotAuthorized
    ELSE [status |-> "verified", id |-> first_row(found)]

\* auth.rs:29-39: the account of the credentials, or the rejection.
verify(username, pw) ==
    LET found == select_login_by_username(username) IN
    IF found = {}
    THEN NotAuthorized
    ELSE IF ~pw_matches(first_row(found), pw)
    THEN NotAuthorized
    ELSE [status |-> "verified", id |-> first_row(found)]

\* auth.rs:47: the test of the sweep.
is_expired(current_time, expire) == current_time > expire

\* auth.rs:60-63: the expiry of a session made by login.
login_expire(now, remember) ==
    IF remember
    THEN now + 60 * 60 * SESSION_REMEMBER_EXPIRE_HOUR
    ELSE now + 60 * 60 * SESSION_NO_REMEMBER_EXPIRE_MINUTE

\* Mutant: the hours are taken for minutes.
refresh_expire_minutes(now) == now + REFRESHED_SESSION_EXPIRE_HOUR * 60

\* auth.rs:101: the expiry of a session made by refresh.
refresh_expire(now) == now + REFRESHED_SESSION_EXPIRE_HOUR * 3600

\* auth.rs:77-82 and 114-118: ResponseData.
ResponseData(s, t) == [status |-> "ok", session |-> s, refresh_token |-> t]

(***************************************************************************)
(* login, auth.rs:23-83.                                                   *)
(***************************************************************************)
\* auth.rs:24-42: the request arrives; the account is looked up by username,
\* the password is checked and the sessions of the account are read.  (The
\* columns the first SELECT reads are never written, so the two SELECTs are
\* one step.)
login_verify(r) ==
    /\ FirstFree(r)
    /\ started < MaxRequests
    /\ started' = started + 1
    /\ \E username \in Usernames, pw \in Passwords, remember \in BOOLEAN :
        LET json_data == [kind |-> "login", username |-> username, pw |-> pw,
                          remember |-> remember]
            verified == verify(username, pw)
        IN  IF verified.status # "verified"
            THEN Slot(r, "done", json_data, 0, EmptyBag, {}, verified)
            ELSE Slot(r, "login_sweep", json_data, verified.id,
                      select_session_by_id(verified.id), {}, NoResp)
    /\ UNCHANGED <<refresh_token, session, clock, ticks, issued, retired>>

\* auth.rs:44-51: one turn of the loop, for the next row of the result: the
\* row is deleted by its token when the clock is past its expire.
login_sweep(r) ==
    /\ pc[r] = "login_sweep"
    /\ \E row \in DOMAIN result[r] :
        LET current_time == clock IN
        /\ session' = IF is_expired(current_time, row.expire)
                      THEN delete_session(row.session)
                      ELSE session
        /\ Slot(r, "login_sweep", req[r], id[r],
                result[r] (-) SetToBag({row}),
                examined[r] \cup {[row |-> row, at |-> current_time]},
                NoResp)
    /\ UNCHANGED <<refresh_token, clock, ticks, started, issued, retired>>

\* auth.rs:54-65: the session token is made, the expiry computed and the row
\* inserted.
login_insert(r) ==
    /\ pc[r] = "login_sweep"
    /\ result[r] = EmptyBag
    /\ \E key \in Keys :
        LET token == make_token(id[r], key) IN
        /\ session' = insert_session(id[r], token,
                                     login_expire(clock, req[r].remember))
        /\ Slot(r, "login_update", req[r], id[r], EmptyBag, examined[r],
                [status |-> "pending", session |-> token])
    /\ UNCHANGED <<refresh_token, clock, ticks, started, issued, retired>>

\* auth.rs:67-82: the refresh token is made and stored, and the response sent.
login_update(r) ==
    /\ pc[r] = "login_update"
    /\ \E key \in Keys :
        LET token == make_token(id[r], key) IN
        /\ refresh_token' = update_refresh_token(id[r], token)
        /\ Slot(r, "done", req[r], id[r], EmptyBag, examined[r],
                ResponseData(resp[r].session, token))
        /\ issued' = [issued EXCEPT ![id[r]] = token]
        /\ retired' = [retired EXCEPT ![id[r]] = NULL]
    /\ UNCHANGED <<session, clock, ticks, started>>

(***************************************************************************)
(* refresh, auth.rs:85-119.                                                *)
(***************************************************************************)
\* Mutant: a refresh token is accepted only while the account has a session
\* that is not expired.
refresh_lookup_expiring(r) ==
    /\ FirstFree(r)
    /\ started < MaxRequests
    /\ started' = started + 1
    /\ \E token \in PresentedTokens :
        LET json_data == [kind |-> "refresh", refresh_token |-> token]
            found == {i \in select_login_by_refresh_token(token) :
                        \E row \in DOMAIN session :
                            row.id = i /\ ~is_expired(clock, row.expire)}
        IN  IF found = {}
            THEN Slot(r, "done", json_data, 0, EmptyBag, {}, NotAuthorized)
            ELSE Slot(r, "refresh_insert", json_data, first_row(found),
                      EmptyBag, {}, NoResp)
    /\ UNCHANGED <<refresh_token, session, clock, ticks, issued, retired>>

\* auth.rs:87-92: the request arrives; the account is looked up by the
\* refresh token presented.  (refresh holds the id as a string, login as a
\* number: token_source writes the number in decimal, so both handlers hash
\* the same bytes for one account.)
refresh_lookup(r) ==
    /\ FirstFree(r)
    /\ started < MaxRequests
    /\ started' = started + 1
    /\ \E token \in PresentedTokens :
        LET json_data == [kind |-> "refresh", refresh_token |-> token]
            found == select_login_by_refresh_token(token)
        IN  IF found = {}
            THEN Slot(r, "done", json_data, 0, EmptyBag, {}, NotAuthorized)
            ELSE Slot(r, "refresh_insert", json_data, first_row(found),
                      EmptyBag, {}, NoResp)
    /\ UNCHANGED <<refresh_token, session, clock, ticks, issued, retired>>

\* auth.rs:94-103: the session token is made, the expiry computed and the row
\* inserted.
refresh_insert(r) ==
    /\ pc[r] = "refresh_insert"
    /\ \E key \in Keys :
        LET token == make_token(id[r], key) IN
        /\ session' = insert_session(id[r], token, refresh_expire(clock))
        /\ Slot(r, "refresh_update", req[r], id[r], EmptyBag, {},
                [status |-> "pending", session |-> token])
    /\ UNCHANGED <<refresh_token, clock, ticks, started, issued, retired>>

\* Mutant: the UPDATE is conditional on the token presented still being the
\* stored one; otherwise the request is rejected.
refresh_update_checked(r) ==
    /\ pc[r] = "refresh_update"
    /\ IF refresh_token[id[r]] = req[r].refresh_token
       THEN \E key \in Keys :
               LET token == make_token(id[r], key) IN
               /\ refresh_token' = update_refresh_token(id[r], token)
               /\ Slot(r, "done", req[r], id[r], EmptyBag, {},
                       ResponseData(resp[r].session, token))
               /\ issued' = [issued EXCEPT ![id[r]] = token]
               /\ retired' = [retired EXCEPT ![id[r]] = req[r].refresh_token]
       ELSE /\ Slot(r, "done", req[r], id[r], EmptyBag, {}, NotAuthorized)
            /\ UNCHANGED <<refresh_token, issued, retired>>
    /\ UNCHANGED <<session, clock, ticks, started>>

\* auth.rs:105-118: the new refresh token is made and stored, and the
\* response sent.
refresh_update(r) ==
    /\ pc[r] = "refresh_update"
    /\ \E key \in Keys :
        LET token == make_token(id[r], key) IN
        /\ refresh_token' = update_refresh_token(id[r], token)
        /\ Slot(r, "done", req[r], id[r], EmptyBag, {},
                ResponseData(resp[r].session, token))
        /\ issued' = [issued EXCEPT ![id[r]] = token]
        /\ retired' = [retired EXCEPT ![id[r]] = req[r].refresh_token]
    /\ UNCHANGED <<session, clock, ticks, started>>

(***************************************************************************)
(* Time passes.  Only login_sweep, login_insert and refresh_insert read the *)
(* clock, so the clock is advanced only when one of them is the next step   *)
(* of some handler: an advance at any other moment reads the same.         *)
(***************************************************************************)
Tick ==
    /\ ticks < MaxTicks
    /\ \E r \in Slots : pc[r] \in {"login_sweep", "refresh_insert"}
    /\ \E d \in TickSteps : clock' = clock + d
    /\ ticks' = ticks + 1
    /\ pc' = Freed(pc, "idle")
    /\ req' = Freed(req, NoReq)
    /\ id' = Freed(id, 0)
    /\ result' = Freed(result, EmptyBag)
    /\ examined' = Freed(examined, {})
    /\ resp' = Freed(resp, NoResp)
    /\ error' = Freed(error, "none")
    /\ UNCHANGED <<refresh_token, session, started, issued, retired>>

Step(r) ==
    \/ login_sweep(r)
    \/ login_insert(r)
    \/ login_update(r)
    \/ refresh_insert(r)
    \/ refresh_update(r)

Next ==
    \/ \E r \in Slots : login_verify(r)
    \/ \E r \in Slots : refresh_lookup(r)
    \/ \E r \in Slots : Step(r)
    \/ Tick

Spec == Init /\ [][Next]_vars

\* Requests executed one at a time.
NextSeq ==
    \/ \E r \in Slots : Quiet(r) /\ login_verify(r)
    \/ \E r \in Slots : Quiet(r) /\ refresh_lookup(r)
    \/ \E r \in Slots : Step(r)
    \/ Tick

SpecSeq == Init /\ [][NextSeq]_vars

(***************************************************************************)
(* Store statements that fail.  Every statement is executed with           *)
(* conn.exec(...).unwrap(): an error of the store panics the handler at    *)
(* that statement.  A statement that returns an error has not changed the  *)
(* store.  A process killed at the same point leaves the same store and    *)
(* gives the client no reply either.                                       *)
(***************************************************************************)
\* auth.rs:28-29 and 42: the request arrives and the SELECT of the account
\* fails, or the credentials are verified and the SELECT of the sessions
\* fails.
login_select_fails(r) ==
    /\ FirstFree(r)
    /\ started < MaxRequests
    /\ started' = started + 1
    /\ \E username \in Usernames, pw \in Passwords, remember \in BOOLEAN :
        LET json_data == [kind |-> "login", username |-> username, pw |-> pw,
                          remember |-> remember]
            verified == verify(username, pw)
        IN  \/ Panic(r, "select_login", json_data, 0, {})
            \/ /\ verified.status = "verified"
               /\ Panic(r, "select_session", json_data, verified.id, {})
    /\ UNCHANGED <<refresh_token, session, clock, ticks, issued, retired>>

\* Mutant: the error of the DELETE is dropped and the loop goes on.
login_delete_fails_ignored(r) ==
    /\ pc[r] = "login_sweep"
    /\ \E row \in DOMAIN result[r] :
        /\ is_expired(clock, row.expire)
        /\ pc' = Set(pc, r, "login_sweep", "idle")
        /\ req' = Set(req, r, req[r], NoReq)
        /\ id' = Set(id, r, id[r], 0)
        /\ result' = Set(result, r, result[r] (-) SetToBag({row}), EmptyBag)
        /\ examined' = Set(examined, r, examined[r], {})
        /\ resp' = Set(resp, r, NoResp, NoResp)
        /\ error' = Set(error, r, "delete", "none")
    /\ UNCHANGED <<refresh_token, session, clock, ticks, started, issued, retired>>

\* auth.rs:47-49: the DELETE of an expired row fails.
login_delete_fails(r) ==
    /\ pc[r] = "login_sweep"
    /\ \E row \in DOMAIN result[r] :
        /\ is_expired(clock, row.expire)
        /\ Panic(r, "delete", req[r], id[r], examined[r])
    /\ UNCHANGED <<refresh_token, session, clock, ticks, started, issued, retired>>

\* auth.rs:65: the INSERT of login fails.
login_insert_fails(r) ==
    /\ pc[r] = "login_sweep"
    /\ result[r] = EmptyBag
    /\ Panic(r, "insert", req[r], id[r], examined[r])
    /\ UNCHANGED <<refresh_token, session, clock, ticks, started, issued, retired>>

\* Mutant: the INSERT and the UPDATE are one transaction, so a failed
\* UPDATE takes the inserted row back.
login_update_fails_undone(r) ==
    /\ pc[r] = "login_update"
    /\ session' = session (-) SetToBag({CHOOSE row \in DOMAIN session :
                        row.id = id[r] /\ row.session = resp[r].session})
    /\ Panic(r, "update", req[r], id[r], examined[r])
    /\ UNCHANGED <<refresh_token, clock, ticks, started, issued, retired>>

\* auth.rs:74: the UPDATE of login fails.
login_update_fails(r) ==
    /\ pc[r] = "login_update"
    /\ Panic(r, "update", req[r], id[r], examined[r])
    /\ UNCHANGED <<refresh_token, session, clock, ticks, started, issued, retired>>

\* auth.rs:88-89: the request arrives and the SELECT of the account fails.
refresh_select_fails(r) ==
    /\ FirstFree(r)
    /\ started < MaxRequests
    /\ started' = started + 1
    /\ \E token \in PresentedTokens :
        Panic(r, "select_login", [kind |-> "refresh", refresh_token |-> token],
              0, {})
    /\ UNCHANGED <<refresh_token, session, clock, ticks, issued, retired>>

\* auth.rs:103: the INSERT of refresh fails.
refresh_insert_fails(r) ==
    /\ pc[r] = "refresh_insert"
    /\ Panic(r, "insert", req[r], id[r], {})
    /\ UNCHANGED <<refresh_token, session, clock, ticks, started, issued, retired>>

\* auth.rs:111: the UPDATE of refresh fails.
refresh_update_fails(r) ==
    /\ pc[r] = "refresh_update"
    /\ Panic(r, "update", req[r], id[r], {})
    /\ UNCHANGED <<refresh_token, session, clock, ticks, started, issued, retired>>

StepFails(r) ==
    \/ login_delete_fails(r)
    \/ login_insert_fails(r)
    \/ login_update_fails(r)
    \/ refresh_insert_fails(r)
    \/ refresh_update_fails(r)

\* Requests executed one at a time, over a store whose statements can fail.
NextFail ==
    \/ \E r \in Slots : Quiet(r) /\ login_verify(r)
    \/ \E r \in Slots : Quiet(r) /\ refresh_lookup(r)
    \/ \E r \in Slots : Step(r)
    \/ \E r \in Slots : Quiet(r) /\ login_select_fails(r)
    \/ \E r \in Slots : Quiet(r) /\ refresh_select_fails(r)
    \/ \E r \in Slots : StepFails(r)
    \/ Tick

SpecFail == Init /\ [][NextFail]_vars

(***************************************************************************)
(* The claims.                                                             *)
(***************************************************************************)
\* The accounts a request's credentials are valid for: the username is the
\* account's and the password, hashed with the account's salt, is the
\* stored hash.
AccountsOf(j) ==
    {i \in Ids : /\ login_rows[i].username = j.username
                 /\ hash_from_string(j.pw \o login_rows[i].salt) = login_rows[i].pw}

\* A login, or a refresh, arrives in slot r in this step.
LoginArrives(r) ==
    ~Running(r) /\ started' # started /\ req'[r].kind = "login"
RefreshArrives(r) ==
    ~Running(r) /\ started' # started /\ req'[r].kind = "refresh"

SessionRows == BagToSet(session)

\* C1: with requests executed one at a time, a login with valid credentials
\* ends with a response that carries a session token and a refresh token;
\* when it has ended, the account's stored refresh_token is the refresh token
\* of the response and the session table holds a row (account id, session
\* token of the response).
C1_LoginSuccess ==
    \A r \in Slots :
        (pc[r] = "done" /\ req[r].kind = "login" /\ AccountsOf(req[r]) # {}) =>
            /\ resp[r].status = "ok"
            /\ resp[r].session \in Tokens
            /\ resp[r].refresh_token \in Tokens
            /\ \A i \in AccountsOf(req[r]) :
                /\ refresh_token[i] = resp[r].refresh_token
                /\ \E row \in SessionRows :
                    row.id = i /\ row.session = resp[r].session

C1_Witness ==
    \E r \in Slots :
        /\ pc[r] = "done" /\ req[r].kind = "login" /\ AccountsOf(req[r]) # {}
        /\ resp[r].status = "ok"
        /\ req[r].remember

\* C2: a login whose username matches no account, or whose password does not
\* hash to the stored hash, ends at once with NotAuthorized and leaves the
\* session table and every account's refresh_token as they were.
C2_LoginFailureNoEffect ==
    [][\A r \in Slots :
        (LoginArrives(r) /\ AccountsOf(req'[r]) = {}) =>
            /\ pc'[r] = "done"
            /\ resp'[r] = NotAuthorized
            /\ session' = session
            /\ refresh_token' = refresh_token]_vars

C2_Witness ==
    \E r \in Slots :
        /\ pc[r] = "done" /\ req[r].kind = "login"
        /\ req[r].username = "alice" /\ AccountsOf(req[r]) = {}
        /\ resp[r] = NotAuthorized
        /\ session # EmptyBag
        /\ refresh_token[1] # NULL

\* C3: a refresh-token value is used at most once: no refresh succeeds
\* presenting a value that the latest successful refresh of the account has
\* already presented and replaced by another value.
C3_SingleUse ==
    [][\A r \in Slots :
        (pc[r] = "refresh_update" /\ pc'[r] = "done") =>
            ~(/\ retired[id[r]] = req[r].refresh_token
              /\ issued[id[r]] # req[r].refresh_token)]_vars

\* C4: the session row a login inserts has expire = the clock at that moment
\* + 1800 when remember is false and + 604800 when remember is true.
C4_LoginExpiry ==
    [][\A r \in Slots :
        (pc[r] = "login_sweep" /\ pc'[r] = "login_update") =>
            session' = session (+) SetToBag({
                [id |-> id[r], session |-> resp'[r].session,
                 expire |-> clock + (IF req[r].remember THEN 604800 ELSE 1800)]})]_vars

\* C5: the session row a refresh inserts has expire = the clock at that
\* moment + 604800, whatever sessions the account holds already.
C5_RefreshExpiry ==
    [][\A r \in Slots :
        (pc[r] = "refresh_insert" /\ pc'[r] = "refresh_update") =>
            session' = session (+) SetToBag({
                [id |-> id[r], session |-> resp'[r].session,
                 expire |-> clock + 604800]})]_vars

\* A refresh has inserted its row, beside a session of the account that a
\* login without remember made.
C5_Witness ==
    \E r \in Slots :
        /\ pc[r] = "refresh_update"
        /\ \E row \in SessionRows :
            /\ row.id = id[r] /\ row.session = resp[r].session
            /\ row.expire = clock + 604800
        /\ \E row \in SessionRows :
            row.id = id[r] /\ row.expire < 604800

\* C6, as claimed: an account's refresh_token changes only in the update of
\* a refresh for the account that presented the token stored until then.
C6_OnlyRefreshChanges ==
    [][\A i \in Ids :
        refresh_token'[i] # refresh_token[i] =>
            \E r \in Slots :
                /\ pc[r] = "refresh_update" /\ pc'[r] = "done"
                /\ id[r] = i
                /\ req[r].refresh_token = refresh_token[i]]_vars

\* C6, amended: an account's refresh_token changes only in the refresh-token
\* update of a login whose credentials are valid for the account, or of a
\* refresh that found the account by the token it presented.
C6_OnlyUpdatesChange ==
    [][\A i \in Ids :
        refresh_token'[i] # refresh_token[i] =>
            \E r \in Slots :
                /\ pc'[r] = "done"
                /\ id[r] = i
                /\ \/ /\ pc[r] = "login_update"
                      /\ req[r].kind = "login"
                      /\ i \in AccountsOf(req[r])
                   \/ /\ pc[r] = "refresh_update"
                      /\ req[r].kind = "refresh"
                      /\ \E k \in Keys : req[r].refresh_token = make_token(i, k)]_vars

\* A login has replaced a refresh token that an earlier request stored.
C6_Witness ==
    \E r \in Slots :
        /\ pc[r] = "done" /\ req[r].kind = "login" /\ resp[r].status = "ok"
        /\ started >= 2
        /\ refresh_token[id[r]] = resp[r].refresh_token
        /\ \E row \in SessionRows :
            row.id = id[r] /\ row.session # resp[r].session

\* C7: with requests executed one at a time, a refresh is accepted exactly
\* when it presents the refresh token of the latest successful response for
\* some account, and then for that account; so after refresh(rt1) returned
\* rt2 # rt1, refresh(rt1) ends with NotAuthorized and refresh(rt2) is
\* accepted.
C7_Rotation ==
    /\ [][\A r \in Slots :
            RefreshArrives(r) =>
                IF \E i \in Ids : issued[i] = req'[r].refresh_token
                THEN /\ pc'[r] = "refresh_insert"
                     /\ issued[id'[r]] = req'[r].refresh_token
                ELSE /\ pc'[r] = "done"
                     /\ resp'[r] = NotAuthorized]_vars
    /\ [](\A r \in Slots :
            (pc[r] = "done" /\ req[r].kind = "refresh") =>
                IF resp[r] = NotAuthorized
                THEN \A i \in Ids : issued[i] # req[r].refresh_token
                ELSE /\ resp[r].status = "ok"
                     /\ retired[id[r]] = req[r].refresh_token
                     /\ issued[id[r]] = resp[r].refresh_token
                     /\ refresh_token[id[r]] = resp[r].refresh_token)

\* refresh(rt1) returned rt2 # rt1, and a following refresh(rt1) ended with
\* NotAuthorized.
C7_Witness ==
    \E r \in Slots, i \in Ids :
        /\ pc[r] = "done" /\ req[r].kind = "refresh"
        /\ retired[i] = req[r].refresh_token
        /\ issued[i] # retired[i]
        /\ resp[r] = NotAuthorized

\* C8: when a login with valid credentials has ended, every row its sweep
\* examined with expire < now is gone from the session table, and every row
\* it examined with expire >= now is still there.
C8_SweepExact ==
    \A r \in Slots :
        (pc[r] = "done" /\ req[r].kind = "login" /\ resp[r].status = "ok") =>
            \A e \in examined[r] :
                IF e.row.expire < e.at
                THEN e.row \notin SessionRows
                ELSE e.row \in SessionRows

\* C9: a refresh presenting a value that is no account's stored
\* refresh_token ends at once with NotAuthorized and leaves every account's
\* refresh_token and the session table as they were.
C9_RefreshRejectedNoEffect ==
    [][\A r \in Slots :
        (RefreshArrives(r) /\ \A i \in Ids : refresh_token[i] # req'[r].refresh_token) =>
            /\ pc'[r] = "done"
            /\ resp'[r] = NotAuthorized
            /\ session' = session
            /\ refresh_token' = refresh_token]_vars

\* A forged token was presented while an account had sessions and a token.
C9_Witness ==
    \E r \in Slots :
        /\ pc[r] = "done" /\ req[r].kind = "refresh"
        /\ req[r].refresh_token = Forged
        /\ resp[r] = NotAuthorized
        /\ session # EmptyBag
        /\ \E i \in Ids : refresh_token[i] # NULL

\* The credentials a login rejects: an unknown username with any password,
\* and a known username with a wrong password.
Rejected ==
    {c \in [username : Usernames, pw : Passwords] : AccountsOf(c) = {}}

\* C10: a rejected login ends with the response that every other rejected
\* login gets from the same state, whether its username is unknown or its
\* password wrong, and leaves the store as it was, as they all do.
C10_NoUserEnumeration ==
    [][\A r \in Slots :
        (LoginArrives(r) /\ AccountsOf(req'[r]) = {}) =>
            /\ \A c \in Rejected : verify(c.username, c.pw) = resp'[r]
            /\ session' = session
            /\ refresh_token' = refresh_token]_vars

\* A login naming no account was rejected.
C10_Witness ==
    \E r \in Slots :
        /\ pc[r] = "done" /\ req[r].kind = "login"
        /\ \A i \in Ids : login_rows[i].username # req[r].username
        /\ resp[r] = NotAuthorized
        /\ \E i \in Ids : refresh_token[i] # NULL

\* C11: in every reachable state no two rows of the session table carry the
\* same session token (a row occurs once, and no other row has its token).
C11_TokenUnique ==
    \A row \in DOMAIN session :
        /\ session[row] = 1
        /\ \A other \in DOMAIN session :
            other.session = row.session => other = row

\* Slots r and q hold two refreshes that presented the same token and both
\* found the account by it: q arrived before r's update and r before q's.
Twin(r, q) ==
    /\ q # r
    /\ req[r].kind = "refresh" /\ req[q].kind = "refresh"
    /\ req[r].refresh_token = req[q].refresh_token
    /\ pc[r] \in {"refresh_insert", "refresh_update"}
    /\ \/ pc[q] \in {"refresh_insert", "refresh_update"}
       \/ pc[q] = "done" /\ resp[q].status = "ok"

\* The update of slot r is the later of two updates of refreshes that both
\* read the account by the same stored token before either wrote: the latest
\* successful request of the account presented the token r presented, and
\* stored another value.
Raced(r) ==
    /\ pc[r] = "refresh_update"
    /\ retired[id[r]] = req[r].refresh_token
    /\ issued[id[r]] # req[r].refresh_token

\* Each of two such refreshes goes on to insert one session row of its own
\* and to end with a successful response.
TwinsBothSucceed ==
    \A r \in Slots :
        (\E q \in Slots : Twin(r, q)) =>
            /\ pc[r] = "refresh_insert" =>
                /\ pc'[r] \in {"refresh_insert", "refresh_update"}
                /\ pc'[r] = "refresh_update" =>
                    \E row \in DOMAIN session' :
                        /\ row.id = id[r] /\ row.session = resp'[r].session
                        /\ session' = session (+) SetToBag({row})
            /\ pc[r] = "refresh_update" =>
                /\ pc'[r] \in {"refresh_update", "done"}
                /\ pc'[r] = "done" => resp'[r].status = "ok"

Inserts(r) ==
    \/ pc[r] = "login_sweep" /\ pc'[r] = "login_update"
    \/ pc[r] = "refresh_insert" /\ pc'[r] = "refresh_update"

\* C13: a login or refresh that succeeds inserts exactly one session row, for
\* the account it authenticated, and no step of a login or refresh removes
\* or alters a session row with expire >= now: every such row is in the
\* table after the step as often as before.
C13_Additive ==
    [][/\ \A r \in Slots :
            Inserts(r) =>
                \E row \in DOMAIN session' :
                    /\ row.id = id[r] /\ row.session = resp'[r].session
                    /\ session' = session (+) SetToBag({row})
       /\ \A r \in Slots :
            (pc[r] \in {"login_update", "refresh_update"} /\ pc'[r] = "done") =>
                /\ resp'[r].status = "ok"
                /\ session' = session
       /\ \A row \in DOMAIN session :
            row.expire >= clock =>
                CopiesIn(row, session') >= CopiesIn(row, session)]_vars

\* Slot r executes a turn of its sweep in this step.
Sweeps(r) == pc[r] = "login_sweep" /\ result'[r] # result[r]

\* C14: whenever a session row disappears from the table, the step is a
\* turn of the sweep of a login whose credentials are valid for the account
\* that owns the row, and the row has expire < now at that step; so no step
\* of a refresh removes a row and no login removes a row of another account.
C14_OnlySweepDeletes ==
    [][\A row \in DOMAIN session :
        CopiesIn(row, session') < CopiesIn(row, session) =>
            \E r \in Slots :
                /\ Sweeps(r)
                /\ req[r].kind = "login"
                /\ row.id \in AccountsOf(req[r])
                /\ row.id = id[r]
                /\ row.expire < clock]_vars

\* A store statement of the handler in slot r returns an error in this step.
Fails(r) == error[r] = "none" /\ error'[r] \in Statements

\* C15: a store statement that fails ends the request at that statement,
\* with no successful response, and the request executes no further
\* statement: the failing step and every later step leave to others what
\* the store holds, so a login whose sweep DELETE fails inserts no session
\* row and does not change the refresh token, and what the request wrote
\* before (earlier sweep deletes) stays as it is.
C15_FailFast ==
    /\ [][\A r \in Slots :
            Fails(r) =>
                /\ pc'[r] = "done"
                /\ resp'[r] = Panicked
                /\ session' = session
                /\ refresh_token' = refresh_token]_vars
    /\ [][\A r \in Slots :
            error[r] \in Statements =>
                \/ pc'[r] = "idle"
                \/ started' = started + 1 /\ pc'[r] # "idle"]_vars
    /\ [](\A r \in Slots :
            error[r] \in Statements =>
                /\ pc[r] = "done"
                /\ resp[r] = Panicked)

\* The sweep of a login deleted an expired row, and the DELETE of a second
\* expired row failed: the first row is gone, the second is still there.
C15_Witness ==
    \E r \in Slots :
        /\ pc[r] = "done" /\ error[r] = "delete"
        /\ \E e \in examined[r] :
            e.row.expire < e.at /\ e.row \notin SessionRows
        /\ \E row \in SessionRows : row.id = id[r] /\ row.expire < clock

\* The handler in slot r is aborted between its two writes in this step: its
\* INSERT has been executed and its UPDATE fails (or the process is killed
\* before it).
AbortedBetween(r) == Fails(r) /\ error'[r] = "update"

\* C16: in login and in refresh the session INSERT is a write of its own
\* that comes before the refresh-token UPDATE of the same request: the
\* refresh token changes only in a step of a request that inserted its
\* session row in an earlier step.  A request aborted between the two
\* writes leaves its session row in the table and the account's
\* refresh_token as it was; after a refresh aborted there, the token it
\* presented is still the stored one and the next refresh presenting it is
\* accepted.
C16_WriteOrder ==
    /\ [][\A r \in Slots :
            (pc'[r] \in {"login_update", "refresh_update"} /\ pc[r] # pc'[r]) =>
                /\ refresh_token' = refresh_token
                /\ \E row \in DOMAIN session' :
                    /\ row.id = id'[r] /\ row.session = resp'[r].session
                    /\ session' = session (+) SetToBag({row})]_vars
    /\ [][\A i \in Ids :
            refresh_token'[i] # refresh_token[i] =>
                \E r \in Slots :
                    /\ id[r] = i
                    /\ pc[r] \in {"login_update", "refresh_update"}
                    /\ pc'[r] = "done"
                    /\ session' = session
                    /\ \E row \in DOMAIN session :
                        row.id = i /\ row.session = resp[r].session]_vars
    /\ [][\A r \in Slots :
            AbortedBetween(r) =>
                /\ pc[r] \in {"login_update", "refresh_update"}
                /\ session' = session
                /\ \E row \in DOMAIN session' :
                    row.id = id[r] /\ row.session = resp[r].session
                /\ refresh_token' = refresh_token]_vars
    /\ [](\A r \in Slots :
            (error[r] = "update" /\ req[r].kind = "refresh") =>
                refresh_token[id[r]] = req[r].refresh_token)
    /\ [][\A r, q \in Slots :
            (/\ error[r] = "update" /\ req[r].kind = "refresh"
             /\ RefreshArrives(q) /\ error'[q] = "none"
             /\ req'[q].refresh_token = req[r].refresh_token) =>
                /\ pc'[q] = "refresh_insert"
                /\ id'[q] = id[r]]_vars

\* A refresh was aborted between its two writes: the row it inserted is in
\* the table and the token it presented is still the stored one.
C16_Witness ==
    \E r \in Slots :
        /\ pc[r] = "done" /\ error[r] = "update" /\ req[r].kind = "refresh"
        /\ refresh_token[id[r]] = req[r].refresh_token
        /\ \E row \in SessionRows :
            row.id = id[r] /\ row.expire = clock + 604800

\* C17: with requests executed one at a time, a refresh presenting the
\* stored refresh token of an account is accepted for that account and ends
\* successfully, whatever the clock shows and whatever session rows the
\* account has; and an account's stored refresh token changes only in the
\* update of a login or refresh of the account that ends successfully.
C17_NeverExpires ==
    /\ [][\A r \in Slots :
            (RefreshArrives(r)
             /\ \E i \in Ids : refresh_token[i] = req'[r].refresh_token) =>
                /\ pc'[r] = "refresh_insert"
                /\ refresh_token[id'[r]] = req'[r].refresh_token]_vars
    /\ [][\A r \in Slots :
            /\ pc[r] = "refresh_insert" =>
                pc'[r] \in {"refresh_insert", "refresh_update"}
            /\ pc[r] = "refresh_update" =>
                /\ pc'[r] \in {"refresh_update", "done"}
                /\ pc'[r] = "done" =>
                    /\ resp'[r].status = "ok"
                    /\ refresh_token'[id[r]] = resp'[r].refresh_token]_vars
    /\ [][\A i \in Ids :
            refresh_token'[i] # refresh_token[i] =>
                \E r \in Slots :
                    /\ id[r] = i
                    /\ pc[r] \in {"login_update", "refresh_update"}
                    /\ pc'[r] = "done"
                    /\ resp'[r].status = "ok"
                    /\ resp'[r].refresh_token = refresh_token'[i]]_vars

\* A refresh has succeeded for an account whose earlier sessions had all
\* expired when it arrived: time had passed before the latest login of
\* another account, which ended before the refresh arrived.
C17_Witness ==
    \E r \in Slots :
        /\ pc[r] = "done" /\ req[r].kind = "refresh" /\ resp[r].status = "ok"
        /\ clock > 0
        /\ \E row \in SessionRows : row.id = id[r] /\ row.expire < clock
        /\ \A row \in SessionRows :
            row.id = id[r] => row.expire < clock \/ row.expire = clock + 604800
        /\ \E row \in SessionRows : row.id # id[r] /\ row.expire > clock

====
